---- MODULE Spec2Model ----
(***************************************************************************)
(* Model of the telemetry ingestion service (api/main.py) and of the       *)
(* llm_requests table it is meant to feed (database/models.py).            *)
(*                                                                         *)
(* log_telemetry is a synchronous FastAPI endpoint: FastAPI runs every     *)
(* call on a worker thread, so the statements of different calls           *)
(* interleave.  Each call is a small process with a program counter; the   *)
(* shared state is the system clock, the uuid4 generator, the console the  *)
(* placeholder prints to, and the llm_requests table.                      *)
(***************************************************************************)
EXTENDS Integers, Sequences, FiniteSets, TLC

\* ------------------------------------------------------------------ bounds
NumRequests == 2          \* calls of POST /log in one run
MaxClock == 2             \* the clock ticks at most up to this value
MaxRows == 2              \* rows of a pre-existing llm_requests table

Reqs == 1..NumRequests
UUIDs == 1..NumRequests   \* the values uuid4 may draw: one for every call
Apps == {"chatbot-v1", "code_assistant"}
Models == {"gpt-4o-mini", "llama3:8b"}
Times == 0..MaxClock

\* Python's None, and a present optional value
None == <<>>
Some(x) == <<x>>

\* ---------------------------------------------------------- request bodies
RequiredFields == {"app_id", "model_name", "prompt", "response", "latency_ms"}

Without(body, k) == [x \in DOMAIN body \ {k} |-> body[x]]

\* the submission of the specification's scenario, with a small latency
BaseBody ==
    [app_id |-> "chatbot-v1", model_name |-> "gpt-4o-mini", prompt |-> "hi",
     response |-> "hello", latency_ms |-> 1]

\* JSON bodies a client may post: the key set is the set of supplied fields.
\* The client timestamp 0 is earlier than every value of the clock.
Bodies ==
    {BaseBody,
     [BaseBody EXCEPT !.latency_ms = 0] @@ [token_count |-> 7],
     [BaseBody EXCEPT !.latency_ms = -1],
     [BaseBody EXCEPT !.app_id = ""],
     [BaseBody EXCEPT !.model_name = ""],
     BaseBody @@ [timestamp |-> 0]}
    \cup {Without(BaseBody, k) : k \in RequiredFields}

\* ------------------------------------------------------------------- state
VARIABLES
    clock,            \* the system clock datetime.utcnow() reads
    issued,           \* the values uuid4 has drawn so far
    console,          \* what print() has written: the sequence of printed records
    store,            \* the llm_requests table: a sequence of rows in insertion order
    pc,               \* per call: where log_telemetry is
    body,             \* per call: the posted JSON body
    event,            \* per call: the validated TelemetryEvent
    request_id,       \* per call: the local request_id
    event_timestamp,  \* per call: the local event_timestamp
    telemetry_record, \* per call: the local telemetry_record
    response,         \* per call: what the caller received
    queryResult       \* the last query and the rows it returned

vars == <<clock, issued, console, store, pc, body, event, request_id,
          event_timestamp, telemetry_record, response, queryResult>>

callVars == <<pc, body, event, request_id, event_timestamp, telemetry_record,
              response>>

Pending == [status_code |-> 0]
NoQuery == [op |-> "none", key |-> "", rows |-> <<>>]

Init ==
    /\ clock = 1
    /\ issued = {}
    /\ console = <<>>
    /\ store = <<>>
    /\ pc = [r \in Reqs |-> "waiting"]
    /\ body = [r \in Reqs |-> None]
    /\ event = [r \in Reqs |-> None]
    /\ request_id = [r \in Reqs |-> None]
    /\ event_timestamp = [r \in Reqs |-> None]
    /\ telemetry_record = [r \in Reqs |-> None]
    /\ response = [r \in Reqs |-> Pending]
    /\ queryResult = NoQuery

\* ------------------------------------------------------ TelemetryEvent
\* pydantic: Field(...) makes a field required, ge=0 bounds latency_ms;
\* a str field has no minimum length.
\* a mutant: the model without ge=0 on latency_ms
ValidateNoLowerBound(b) == RequiredFields \subseteq DOMAIN b

Validate(b) ==
    /\ "app_id" \in DOMAIN b
    /\ "model_name" \in DOMAIN b
    /\ "prompt" \in DOMAIN b
    /\ "response" \in DOMAIN b
    /\ "latency_ms" \in DOMAIN b
    /\ b.latency_ms >= 0

\* the parsed model: the optional fields default to None
ParseEvent(b) ==
    [app_id |-> b.app_id, model_name |-> b.model_name, prompt |-> b.prompt,
     response |-> b.response, latency_ms |-> b.latency_ms,
     token_count |-> IF "token_count" \in DOMAIN b THEN Some(b.token_count) ELSE None,
     timestamp |-> IF "timestamp" \in DOMAIN b THEN Some(b.timestamp) ELSE None]

\* FastAPI's answer to a body that fails validation
ValidationError == [status_code |-> 422]

\* TelemetryResponse(request_id=..., status="logged")
TelemetryResponse(rid) == [status_code |-> 200, request_id |-> rid, status |-> "logged"]

\* a mutant: the clock is read whatever the client sent
EventTimestampAlwaysNow(ev, now) == now

\* a mutant: the default is moved back by the latency, to the start of the LLM call
EventTimestampAtCallStart(ev, now) ==
    IF ev.timestamp # None THEN ev.timestamp[1] ELSE now - ev.latency_ms

\* event.timestamp or datetime.utcnow(): a datetime is always truthy
EventTimestamp(ev, now) == IF ev.timestamp # None THEN ev.timestamp[1] ELSE now

\* the dict literal of lines 65-74
BuildRecord(rid, ev, ts) ==
    [id |-> rid, app_id |-> ev.app_id, model_name |-> ev.model_name,
     prompt |-> ev.prompt, response |-> ev.response, latency_ms |-> ev.latency_ms,
     token_count |-> ev.token_count, timestamp |-> ts]

\* the columns of LLMRequest: the keyword arguments its constructor accepts
LLMRequestColumns ==
    {"id", "app_id", "model_name", "prompt", "response", "latency_ms",
     "created_at", "metadata"}

\* ----------------------------------------------------------------- actions
\* the system clock advances (it is taken never to step back)
Tick ==
    /\ clock < MaxClock
    /\ clock' = clock + 1
    /\ UNCHANGED <<issued, console, store, callVars, queryResult>>

\* a call arrives; FastAPI validates the body against TelemetryEvent before
\* log_telemetry runs, and answers 422 itself when validation fails
Receive(r) ==
    /\ pc[r] = "waiting"
    /\ IF r = 1 THEN TRUE ELSE pc[r - 1] # "waiting"   \* calls are numbered by arrival
    /\ \E b \in Bodies :
        /\ body' = [body EXCEPT ![r] = b]
        /\ IF Validate(b)
             THEN /\ event' = [event EXCEPT ![r] = ParseEvent(b)]
                  /\ pc' = [pc EXCEPT ![r] = "validated"]
                  /\ UNCHANGED response
             ELSE /\ pc' = [pc EXCEPT ![r] = "rejected"]
                  /\ response' = [response EXCEPT ![r] = ValidationError]
                  /\ UNCHANGED event
    /\ UNCHANGED <<clock, issued, console, store, request_id, event_timestamp,
                   telemetry_record, queryResult>>

\* request_id = str(uuid.uuid4()): any value not drawn before (a collision of
\* two random 122-bit values is left out)
GenerateId(r) ==
    /\ pc[r] = "validated"
    /\ \E u \in UUIDs \ issued :
        /\ request_id' = [request_id EXCEPT ![r] = Some([uuid |-> u])]
        /\ issued' = issued \cup {u}
    /\ pc' = [pc EXCEPT ![r] = "identified"]
    /\ UNCHANGED <<clock, console, store, body, event, event_timestamp,
                   telemetry_record, response, queryResult>>

\* event_timestamp = event.timestamp or datetime.utcnow()
AssignTimestamp(r) ==
    /\ pc[r] = "identified"
    /\ event_timestamp' = [event_timestamp EXCEPT ![r] = Some(EventTimestamp(event[r], clock))]
    /\ pc' = [pc EXCEPT ![r] = "stamped"]
    /\ UNCHANGED <<clock, issued, console, store, body, event, request_id,
                   telemetry_record, response, queryResult>>

\* telemetry_record = {...}; print(telemetry_record).  The table is not written:
\* the session.add / session.commit of lines 80-83 is a comment.
BuildAndPrint(r) ==
    /\ pc[r] = "stamped"
    /\ LET rec == BuildRecord(request_id[r][1], event[r], event_timestamp[r][1])
       IN /\ telemetry_record' = [telemetry_record EXCEPT ![r] = rec]
          /\ console' = Append(console, rec)
    /\ pc' = [pc EXCEPT ![r] = "printed"]
    /\ UNCHANGED <<clock, issued, store, body, event, request_id, event_timestamp,
                   response, queryResult>>

\* return TelemetryResponse(request_id=request_id, status="logged")
Return(r) ==
    /\ pc[r] = "printed"
    /\ response' = [response EXCEPT ![r] = TelemetryResponse(request_id[r][1])]
    /\ pc' = [pc EXCEPT ![r] = "done"]
    /\ UNCHANGED <<clock, issued, console, store, body, event, request_id,
                   event_timestamp, telemetry_record, queryResult>>

Next ==
    \/ Tick
    \/ \E r \in Reqs : Receive(r)
    \/ \E r \in Reqs : GenerateId(r)
    \/ \E r \in Reqs : AssignTimestamp(r)
    \/ \E r \in Reqs : BuildAndPrint(r)
    \/ \E r \in Reqs : Return(r)

Spec == Init /\ [][Next]_vars

\* ------------------------------------------------------------ llm_requests
\* one row of the table; id is the autoincrement primary key
Row(id, app, model, t) ==
    [id |-> id, app_id |-> app, model_name |-> model, prompt |-> "hi",
     response |-> "hello", latency_ms |-> 1, created_at |-> t, metadata |-> None]

\* the tables an append-only run can have left behind: ids are 1..n in
\* insertion order, created_at is whatever each insert carried
Tables ==
    UNION {{[i \in 1..n |-> Row(i, f[i][1], f[i][2], f[i][3])] :
                f \in [1..n -> Apps \X Models \X Times]} : n \in 0..MaxRows}

\* the rowids in S ordered by (created_at, rowid): the order of the entries of
\* a composite index (col, created_at) within one value of col
RECURSIVE ByCreatedAt(_, _)
ByCreatedAt(table, S) ==
    IF S = {} THEN <<>>
    ELSE LET m == CHOOSE i \in S : \A j \in S :
                     \/ table[i].created_at < table[j].created_at
                     \/ table[i].created_at = table[j].created_at /\ i <= j
         IN <<m>> \o ByCreatedAt(table, S \ {m})

\* the rowids in S in rowid order: the order of the entries of a
\* single-column index within one value of the column
RECURSIVE ByRowid(_, _)
ByRowid(table, S) ==
    IF S = {} THEN <<>>
    ELSE LET m == CHOOSE i \in S : \A j \in S : i <= j
         IN <<m>> \o ByRowid(table, S \ {m})

\* a mutant: an index on app_id alone
idx_app_only(table, k) ==
    ByRowid(table, {i \in 1..Len(table) : table[i].app_id = k})

\* Index("idx_app_created", "app_id", "created_at"): the entries for app_id = k
idx_app_created(table, k) ==
    ByCreatedAt(table, {i \in 1..Len(table) : table[i].app_id = k})

\* Index("idx_model_created", "model_name", "created_at"): the entries for model_name = k
idx_model_created(table, k) ==
    ByCreatedAt(table, {i \in 1..Len(table) : table[i].model_name = k})

\* the lookups of the storage contract, answered from the two indexes
queryByApp(table, app_id) ==
    LET scan == idx_app_created(table, app_id)
    IN [i \in 1..Len(scan) |-> table[scan[i]]]

queryByModel(table, model_name) ==
    LET scan == idx_model_created(table, model_name)
    IN [i \in 1..Len(scan) |-> table[scan[i]]]

UnknownKey == "no-such-key"

InitQuery ==
    /\ clock = 1
    /\ issued = {}
    /\ console = <<>>
    /\ store \in Tables
    /\ pc = [r \in Reqs |-> "waiting"]
    /\ body = [r \in Reqs |-> None]
    /\ event = [r \in Reqs |-> None]
    /\ request_id = [r \in Reqs |-> None]
    /\ event_timestamp = [r \in Reqs |-> None]
    /\ telemetry_record = [r \in Reqs |-> None]
    /\ response = [r \in Reqs |-> Pending]
    /\ queryResult = NoQuery

QueryByApp(k) ==
    /\ queryResult' = [op |-> "queryByApp", key |-> k, rows |-> queryByApp(store, k)]
    /\ UNCHANGED <<clock, issued, console, store, callVars>>

QueryByModel(k) ==
    /\ queryResult' = [op |-> "queryByModel", key |-> k, rows |-> queryByModel(store, k)]
    /\ UNCHANGED <<clock, issued, console, store, callVars>>

NextQuery ==
    \/ \E k \in Apps \cup {UnknownKey} : QueryByApp(k)
    \/ \E k \in Models \cup {UnknownKey} : QueryByModel(k)

SpecQuery == InitQuery /\ [][NextQuery]_vars

\* ================================================================== claims
Succeeded(r) == response[r].status_code = 200
HasRecord(r) == DOMAIN telemetry_record[r] # {}
ClientStamped(r) == "timestamp" \in DOMAIN body[r]
PersistedIds == {store[i].id : i \in 1..Len(store)}

\* C1: whenever a caller has received {request_id, status}, a record with that
\* identifier is already in the store.
C1_ReturnedIdIsPersisted ==
    \A r \in Reqs : Succeeded(r) => response[r].request_id \in PersistedIds

\* C2: a submission that lacks a required field or has latency_ms < 0 is
\* answered with a client error, is given no identifier and no record, and the
\* step that rejects it leaves the store (and the console) as they were.
C2_MissingOrNegative(b) ==
    \/ \E f \in {"app_id", "model_name", "prompt", "response", "latency_ms"} : f \notin DOMAIN b
    \/ b.latency_ms < 0

C2_InvalidRejected ==
    /\ [](\A r \in Reqs :
            (pc[r] # "waiting" /\ C2_MissingOrNegative(body[r])) =>
                /\ response[r].status_code \in 400..499
                /\ request_id[r] = None
                /\ ~HasRecord(r)
                /\ pc[r] = "rejected")
    /\ [][\A r \in Reqs :
            (pc[r] = "waiting" /\ pc'[r] # "waiting" /\ C2_MissingOrNegative(body'[r])) =>
                (store' = store /\ console' = console /\ issued' = issued)]_vars

C2_Witness ==
    \E r1, r2 \in Reqs :
        /\ pc[r1] = "rejected" /\ "latency_ms" \in DOMAIN body[r1] /\ body[r1].latency_ms < 0
        /\ pc[r2] = "rejected" /\ "app_id" \notin DOMAIN body[r2]

\* C3: every successful call has added exactly one record to the store, the
\* one built from its submission, and nothing else has been added.
C3_OneRecordPerSuccess ==
    /\ Len(store) = Cardinality({r \in Reqs : Succeeded(r)})
    /\ \A r \in Reqs : Succeeded(r) =>
          \E i \in 1..Len(store) :
              /\ store[i].app_id = event[r].app_id
              /\ store[i].model_name = event[r].model_name
              /\ store[i].latency_ms = event[r].latency_ms

\* C4: no two successful submissions have received the same identifier, and
\* the identifier a caller received is the identifier of the persisted record.
C4_UniquePersistedIdentifier ==
    /\ \A r1, r2 \in Reqs :
          (r1 # r2 /\ Succeeded(r1) /\ Succeeded(r2)) =>
              response[r1].request_id # response[r2].request_id
    /\ \A r \in Reqs : Succeeded(r) =>
          /\ response[r].request_id = telemetry_record[r].id
          /\ telemetry_record[r].id \in PersistedIds

C7_NonEmptyKeys ==
    \A r \in Reqs :
        (HasRecord(r) \/ Succeeded(r)) =>
            (body[r].app_id # "" /\ body[r].model_name # "")

\* C8: once NumRequests valid submissions for one app_id have all returned,
\* they hold NumRequests distinct identifiers and the store holds NumRequests
\* complete records for that app_id.
C8_ConcurrentAppends ==
    \A a \in Apps :
        (\A r \in Reqs : pc[r] = "done" /\ event[r].app_id = a) =>
            /\ Cardinality({response[r].request_id : r \in Reqs}) = NumRequests
            /\ Cardinality({i \in 1..Len(store) : store[i].app_id = a}) = NumRequests

\* C9: queryByApp(k) returns exactly the rows of the table whose app_id is k,
\* each once, in non-decreasing created_at order; queryByModel likewise for
\* model_name; a key that matches no row gives the empty sequence.
C9_Matching(k) ==
    IF queryResult.op = "queryByApp"
    THEN {i \in 1..Len(store) : store[i].app_id = k}
    ELSE {i \in 1..Len(store) : store[i].model_name = k}

C10_RecordIsStorageEntity ==
    \A r \in Reqs : HasRecord(r) =>
        LET rec == telemetry_record[r]
        IN /\ \A f \in RequiredFields : rec[f] = body[r][f]
           /\ rec.id = request_id[r][1]
           /\ Succeeded(r) => rec.id = response[r].request_id
           /\ DOMAIN rec \subseteq LLMRequestColumns
           /\ "created_at" \in DOMAIN rec

====
